---- MODULE Spec2Model ----
(***************************************************************************)
(* A model of the TB Global Analysis cleaning and analysis code:           *)
(* src/src/data_cleaning.py and src/src/analysis.py, over small pandas     *)
(* data frames.                                                            *)
(*                                                                         *)
(* A cell is a record [k, v]:                                              *)
(*   k = "null"  NaN / None / <NA>                                         *)
(*   k = "num"   the number v                                              *)
(*   k = "frac"  the number v + 1/2 (the only non-integers modelled)       *)
(*   k = "text"  a string that reads as the number v, such as "2000"       *)
(*   k = "str"   a string that reads as no number: v = 0 is a token such   *)
(*               as "unknown", v >= 1 is the v-th name of CountryNames     *)
(*   k = "bool"  False (v = 0) or True (v = 1)                             *)
(* A row is [src, c]: c maps each column name to a cell; src is the row's  *)
(* label in the frame it was first read from (a ghost: no operation reads  *)
(* it, the properties use it to follow a row through cleaning).            *)
(* A frame is [st, cols, num, rows]: st is "ok", "none" (Python's None) or *)
(* "error" (the call raised); cols the column names; num the columns of a  *)
(* numeric dtype; rows the rows in order.                                  *)
(***************************************************************************)
EXTENDS Integers, Sequences, FiniteSets, TLC

VARIABLES
    frame,       \* a frame passed to clean_tb_data or identify_outliers directly
    cleaned,     \* what clean_tb_data returned for frame
    flagged,     \* what identify_outliers returned for frame
    owid_raw,    \* TBAnalysisPipeline.owid_raw
    who_raw,     \* TBAnalysisPipeline.who_raw
    owid_clean,  \* TBAnalysisPipeline.owid_clean
    who_clean,   \* TBAnalysisPipeline.who_clean
    merged,      \* TBAnalysisPipeline.merged
    top,         \* what a top-N ranking or a trend function returned
    args,        \* the other arguments of the last identify_outliers or top-N call
    run          \* where TBAnalysisPipeline.run is, and what it did so far

vars == <<frame, cleaned, flagged, owid_raw, who_raw, owid_clean, who_clean, merged, top,
          args, run>>

\* src/src/config.py
MIN_YEAR == 1990
MAX_YEAR == 2023
TOP_N_COUNTRIES == 10
OUTLIER_ZSCORE == 3

\* Bound: the most rows a raw frame holds.
MaxRows == 3

----------------------------------------------------------------------------
\* Cells

Null == [k |-> "null", v |-> 0]
Num(n) == [k |-> "num", v |-> n]
Frac(n) == [k |-> "frac", v |-> n]
Text(n) == [k |-> "text", v |-> n]
Token == [k |-> "str", v |-> 0]
Name(i) == [k |-> "str", v |-> i]
Bool(b) == [k |-> "bool", v |-> IF b THEN 1 ELSE 0]

\* The country names of the model, in ascending string order: Name(i) is
\* the i-th, so that string comparison is comparison of v.
CountryNames == <<"A", "B", "X", "Y", "Z">>

isna(cell) == cell.k = "null"

\* pd.to_numeric(errors='coerce') on one cell.
to_numeric(cell) ==
    CASE cell.k = "num" -> cell
      [] cell.k = "frac" -> cell
      [] cell.k = "text" -> Num(cell.v)
      [] OTHER -> Null

----------------------------------------------------------------------------
\* Frames

None == [st |-> "none", cols |-> {}, num |-> {}, rows |-> <<>>]
NoArgs == [columns |-> {}, zscore_threshold |-> 0, year |-> Null, n |-> 0]
Raised == [st |-> "error", cols |-> {}, num |-> {}, rows |-> <<>>]

\* The files of data/processed before any run has written one.
NoDisk == [owid_cleaned |-> None, who_cleaned |-> None, merged |-> None]

\* No run of the pipeline: run() has not been called.
NoRun == [pc |-> "idle", count |-> 0, results |-> <<>>, written |-> {}, join |-> -1,
          exit |-> -1, disk |-> NoDisk]

\* The dtype pandas infers for a column: numeric unless a cell is a string.
InferNumeric(cols, rows) ==
    {c \in cols : \A i \in 1..Len(rows) : rows[i].c[c].k \in {"null", "num", "frac"}}

\* pd.DataFrame / pd.read_csv: a frame of the given cells, labelled 1..n.
DataFrame(cols, cellrows) ==
    LET rows == [i \in 1..Len(cellrows) |-> [src |-> i, c |-> cellrows[i]]]
    IN [st |-> "ok", cols |-> cols, num |-> InferNumeric(cols, rows), rows |-> rows]

\* The rows of a frame whose positions are in keep, in order (boolean
\* indexing, dropna, drop_duplicates all select rows this way).
RECURSIVE TakeRows(_, _, _)
TakeRows(rows, keep, i) ==
    IF i > Len(rows) THEN <<>>
    ELSE IF i \in keep THEN <<rows[i]>> \o TakeRows(rows, keep, i + 1)
    ELSE TakeRows(rows, keep, i + 1)

SelectRows(df, keep) == [df EXCEPT !.rows = TakeRows(df.rows, keep, 1)]

\* df.columns.str.strip().str.lower().str.replace(" ", "_").str.replace("-", "_")
\* on the column names of the model.
NormalizeName(name) ==
    CASE name \in {"Entity", " Entity ", "ENTITY"} -> "entity"
      [] name = "Country" -> "country"
      [] name \in {"Year", "YEAR", " year"} -> "year"
      [] name = "TB Incidence" -> "tb_incidence"
      [] name \in {"Estimated incidence of all forms of tuberculosis",
                   "estimated incidence of all forms of tuberculosis"}
           -> "estimated_incidence_of_all_forms_of_tuberculosis"
      [] OTHER -> name

\* df.rename(columns={from: to}) when from is a column, else df.
rename(df, from, to) ==
    IF from \notin df.cols THEN df
    ELSE LET new == (df.cols \ {from}) \cup {to}
             old(n) == IF n = to THEN from ELSE n
         IN [df EXCEPT
               !.cols = new,
               !.num = {n \in new : old(n) \in df.num},
               !.rows = [i \in 1..Len(df.rows) |->
                           [df.rows[i] EXCEPT !.c = [n \in new |-> df.rows[i].c[old(n)]]]]]

\* df.drop_duplicates(): a row is dropped when an earlier row has the same
\* cells in every column.
drop_duplicates(df) ==
    SelectRows(df, {i \in 1..Len(df.rows) :
                      \A j \in 1..(i - 1) : df.rows[j].c # df.rows[i].c})

\* df.dropna(subset=subset, how=how)
dropna(df, subset, how) ==
    SelectRows(df, {i \in 1..Len(df.rows) :
                      IF how = "all"
                      THEN \E c \in subset : ~isna(df.rows[i].c[c])
                      ELSE \A c \in subset : ~isna(df.rows[i].c[c])})

----------------------------------------------------------------------------
\* src/src/data_cleaning.py

\* The column names standardized (lines 29-35).
StandardizeColumns(df) ==
    LET new == {NormalizeName(n) : n \in df.cols}
        old(n) == CHOOSE o \in df.cols : NormalizeName(o) = n
    IN [df EXCEPT
          !.cols = new,
          !.num = {n \in new : old(n) \in df.num},
          !.rows = [i \in 1..Len(df.rows) |->
                      [df.rows[i] EXCEPT !.c = [n \in new |-> df.rows[i].c[old(n)]]]]]

\* df[col] = pd.to_numeric(df[col], errors='coerce'): the column's dtype
\* becomes numeric.
CoerceColumn(df, col) ==
    [df EXCEPT
       !.num = @ \cup {col},
       !.rows = [i \in 1..Len(df.rows) |->
                   [df.rows[i] EXCEPT !.c[col] = to_numeric(df.rows[i].c[col])]]]

\* CoerceYear without the year window.
CoerceYear_NoWindow(df) ==
    IF \E i \in 1..Len(df.rows) : to_numeric(df.rows[i].c["year"]).k = "frac"
    THEN Raised
    ELSE dropna(CoerceColumn(df, "year"), {"year"}, "any")

\* pd.to_numeric(df['year'], errors='coerce').astype('Int64'), then
\* dropna(subset=['year']) and the year window (lines 50-57).  astype raises
\* on a float that is no integer ("cannot safely cast non-equivalent
\* float64 to int64").
CoerceYear(df) ==
    IF \E i \in 1..Len(df.rows) : to_numeric(df.rows[i].c["year"]).k = "frac"
    THEN Raised
    ELSE LET d1 == CoerceColumn(df, "year")
             d2 == dropna(d1, {"year"}, "any")
         IN SelectRows(d2, {i \in 1..Len(d2.rows) :
                              /\ d2.rows[i].c["year"].v >= MIN_YEAR
                              /\ d2.rows[i].c["year"].v <= MAX_YEAR})

\* Row a sorts no later than row b by ['country', 'year'].
KeyLeq(a, b) ==
    \/ a.c["country"].v < b.c["country"].v
    \/ /\ a.c["country"].v = b.c["country"].v
       /\ a.c["year"].v <= b.c["year"].v

\* df.sort_values(['country', 'year']): sorting by several columns is a
\* stable sort (pandas lexsort), so rows of equal key keep their order.
RECURSIVE SortRows(_)
SortRows(rows) ==
    IF rows = <<>> THEN <<>>
    ELSE LET n == Len(rows)
             s == SortRows(SubSeq(rows, 1, n - 1))
             r == rows[n]
             p == Cardinality({i \in 1..Len(s) : KeyLeq(s[i], r)})
         IN SubSeq(s, 1, p) \o <<r>> \o SubSeq(s, p + 1, Len(s))

\* sort_values left out.
sort_values_skipped(df) == df

sort_values(df) == [df EXCEPT !.rows = SortRows(df.rows)]

clean_tb_data(df) ==
    LET d1 == StandardizeColumns(df)
        d2 == drop_duplicates(d1)
        d3 == IF {"country", "year"} \subseteq d2.cols
              THEN dropna(d2, {"country", "year"}, "any")
              ELSE d2
        d4 == IF "year" \in d3.cols THEN CoerceYear(d3) ELSE d3
    IN IF d4.st = "error" THEN d4
       ELSE IF {"country", "year"} \subseteq d4.cols THEN sort_values(d4)
       ELSE d4

\* ffill that fills nothing.
ffill_none(cells) == cells

\* x.ffill() on one group's column: a null takes the last value before it.
RECURSIVE ffill(_)
ffill(cells) ==
    IF cells = <<>> THEN <<>>
    ELSE LET n == Len(cells)
             p == ffill(SubSeq(cells, 1, n - 1))
         IN Append(p, IF isna(cells[n]) /\ n > 1 THEN p[n - 1] ELSE cells[n])

\* The positions of the rows of one country, in order.
RECURSIVE GroupOf(_, _, _)
GroupOf(rows, country, i) ==
    IF i > Len(rows) THEN <<>>
    ELSE IF rows[i].c["country"] = country
         THEN <<i>> \o GroupOf(rows, country, i + 1)
         ELSE GroupOf(rows, country, i + 1)

\* df.groupby('country')[col].transform(lambda x: x.ffill()): each group is
\* filled on its own and put back at its rows' positions; a row of a null
\* country is in no group and gets a null.
FillColumn(rows, col) ==
    [i \in 1..Len(rows) |->
       IF isna(rows[i].c["country"]) THEN [rows[i] EXCEPT !.c[col] = Null]
       ELSE LET g == GroupOf(rows, rows[i].c["country"], 1)
                filled == ffill([j \in 1..Len(g) |-> rows[g[j]].c[col]])
                at == CHOOSE j \in 1..Len(g) : g[j] = i
            IN [rows[i] EXCEPT !.c[col] = filled[at]]]

RECURSIVE FillColumns(_, _)
FillColumns(rows, cols) ==
    IF cols = {} THEN rows
    ELSE LET col == CHOOSE x \in cols : TRUE
         IN FillColumns(FillColumn(rows, col), cols \ {col})

\* The forward fill of every numeric column by country (lines 101-106 and
\* 160-164).
FillByCountry(df) ==
    IF "country" \in df.cols
    THEN [df EXCEPT !.rows = FillColumns(df.rows, df.num)]
    ELSE df

\* The three renames both source cleaners start with (lines 82-88, 132-138).
RenameAliases(df) ==
    rename(rename(rename(df, "Entity", "country"), "Year", "year"),
           "Estimated incidence of all forms of tuberculosis", "tb_incidence")

tb_indicators ==
    {"tb_incidence", "tuberculosis_deaths", "tuberculosis_incidence_rate",
     "tuberculous_mortality_rate", "population"}

who_indicators ==
    {"tb_cases_notified", "tb_treatment_success_rate", "tb_treatment_coverage",
     "tb_cases_detected", "tb_cases_with_drug_susceptibility_test"}

\* The table with no row dropped for missing indicators.
DropNoSignal_skipped(df, indicators) == df

\* Drop the rows whose indicators are all missing (lines 108-112, 166-170).
DropNoSignal(df, indicators) ==
    LET available == indicators \cap df.cols
    IN IF available # {} THEN dropna(df, available, "all") ELSE df

clean_owid_data(df) ==
    LET d1 == clean_tb_data(RenameAliases(df))
    IN IF d1.st = "error" THEN d1
       ELSE DropNoSignal(FillByCountry(d1), tb_indicators)

\* 'success_rate' in col or 'coverage' in col, on the column names of the model.
IsPercentageCol(col) ==
    col \in {"tb_treatment_success_rate", "tb_treatment_coverage"}

\* df.loc[df[col] > 100, col] = np.nan (line 157).
ClampColumn(df, col) ==
    [df EXCEPT
       !.rows = [i \in 1..Len(df.rows) |->
                   IF df.rows[i].c[col].k = "num" /\ df.rows[i].c[col].v > 100
                   THEN [df.rows[i] EXCEPT !.c[col] = Null]
                   ELSE df.rows[i]]]

\* Each percentage column coerced to numeric, then clamped (lines 153-158).
RECURSIVE ClampColumns(_, _)
ClampColumns(df, cols) ==
    IF cols = {} THEN df
    ELSE LET col == CHOOSE x \in cols : TRUE
         IN ClampColumns(ClampColumn(CoerceColumn(df, col), col), cols \ {col})

clean_who_data(df) ==
    LET d1 == clean_tb_data(RenameAliases(df))
    IN IF d1.st = "error" THEN d1
       ELSE LET d2 == ClampColumns(d1, {c \in d1.cols : IsPercentageCol(c)})
            IN DropNoSignal(FillByCountry(d2), who_indicators)

\* The object a function works on after "df = df.copy()", when the copy is
\* left out: the caller's own table.
copy_skipped(df) == [object |-> "argument", data |-> df]

\* df.copy(): a new table with the data of df.
copy(df) == [object |-> "new", data |-> df]

\* The caller's table after clean_tb_data(df) has returned.  The one
\* statement that writes into the table bound to df before df is rebound
\* (drop_duplicates, line 41, returns a new table) is the assignment of
\* df.columns (line 30); it lands on the copy of line 27.
clean_tb_data_df(df) ==
    IF copy(df).object = "argument" THEN StandardizeColumns(df) ELSE df

\* The caller's table after clean_owid_data(df) or clean_who_data(df) has
\* returned: the function copies (lines 80, 130), rebinds df at each rename
\* that applies and hands df to clean_tb_data; every later assignment
\* writes into the table clean_tb_data returned.
clean_source_data_df(df) ==
    IF copy(df).object = "argument" /\ RenameAliases(df) = df THEN clean_tb_data_df(df)
    ELSE df

----------------------------------------------------------------------------
\* src/src/analysis.py

\* pd.DataFrame(): no columns, no rows.
EmptyFrame == [st |-> "ok", cols |-> {}, num |-> {}, rows |-> <<>>]

\* df[cols]: the frame restricted to some of its columns.
Project(df, cols) ==
    [df EXCEPT
       !.cols = cols,
       !.num = df.num \cap cols,
       !.rows = [i \in 1..Len(df.rows) |->
                   [df.rows[i] EXCEPT !.c = [n \in cols |-> df.rows[i].c[n]]]]]

\* The rows pd.merge(left, right, on=['country', 'year'], how='inner') makes
\* of left row i: one for each right row of the same key, in right order.
RECURSIVE MatchesOf(_, _, _, _)
MatchesOf(left, right, i, j) ==
    IF j > Len(right.rows) THEN <<>>
    ELSE IF /\ right.rows[j].c["country"] = left.rows[i].c["country"]
            /\ right.rows[j].c["year"] = left.rows[i].c["year"]
         THEN <<[src |-> i,
                 c |-> left.rows[i].c @@
                       [n \in right.cols \ {"country", "year"} |-> right.rows[j].c[n]]]>>
              \o MatchesOf(left, right, i, j + 1)
         ELSE MatchesOf(left, right, i, j + 1)

RECURSIVE MergeRows(_, _, _)
MergeRows(left, right, i) ==
    IF i > Len(left.rows) THEN <<>>
    ELSE MatchesOf(left, right, i, 1) \o MergeRows(left, right, i + 1)

\* pd.merge(..., how='inner'): the left rows in order, each joined with
\* each right row of its key.
merge(left, right) ==
    [st |-> "ok",
     cols |-> left.cols \cup right.cols,
     num |-> left.num \cup right.num,
     rows |-> MergeRows(left, right, 1)]

compare_incidence_vs_treatment_success(owid_df, who_df) ==
    IF "tb_incidence" \notin owid_df.cols THEN EmptyFrame
    ELSE IF ~({"country", "year"} \subseteq owid_df.cols) THEN Raised
    ELSE IF "tb_incidence" \notin who_df.cols THEN EmptyFrame
    ELSE IF ~({"country", "year"} \subseteq who_df.cols) THEN Raised
    ELSE LET owid_subset == Project(owid_df, {"country", "year", "tb_incidence"})
             who_subset == rename(Project(who_df, {"country", "year", "tb_incidence"}),
                                  "tb_incidence", "who_tb_incidence")
         IN sort_values(merge(owid_subset, who_subset))

----------------------------------------------------------------------------
\* The raw frames of the cleaning specification: three columns, a country,
\* a year and one indicator, and at most MaxRows rows.

\* All sequences over S of length at most n.
RECURSIVE SeqsUpTo(_, _)
SeqsUpTo(S, n) ==
    IF n = 0 THEN {<<>>}
    ELSE LET shorter == SeqsUpTo(S, n - 1)
         IN shorter \cup {Append(q, x) : q \in {t \in shorter : Len(t) = n - 1}, x \in S}

\* Rows with a usable key, and the rows that have something wrong: a null
\* country, a year that is null, unreadable, fractional or out of the
\* window, an indicator that is no number.
Keyed(countries, years, values) ==
    {<<Name(i), y, x>> : i \in countries, y \in years, x \in values}

OddCells(x) ==
    {<<Null, Num(2000), x>>, <<Name(1), Null, x>>, <<Name(1), Token, x>>,
     <<Name(1), Frac(2000), x>>, <<Name(1), Num(MIN_YEAR - 1), x>>,
     <<Name(1), Num(MAX_YEAR + 1), x>>, <<Name(2), Num(2000), Token>>}

OwidCells ==
    Keyed({1}, {Num(2000), Num(2001), Text(2000)}, {Null, Num(10)})
      \cup Keyed({2}, {Num(2000), Num(2001)}, {Null, Num(5)})
      \cup OddCells(Num(10))

WhoCells ==
    Keyed({1}, {Num(2000), Num(2001)}, {Null, Num(50), Num(150)})
      \cup Keyed({1}, {Text(2000)}, {Num(50)})
      \cup Keyed({2}, {Num(2000)}, {Null, Num(50), Num(150)})
      \cup OddCells(Num(50))

\* The frame whose columns are named by schema, in the order of the cells
\* of each row.
Frame(schema, cells) ==
    LET names == {schema[k] : k \in 1..Len(schema)}
        at(n) == CHOOSE k \in 1..Len(schema) : schema[k] = n
    IN DataFrame(names, [i \in 1..Len(cells) |-> [n \in names |-> cells[i][at(n)]]])

GenericSchemas == {<<"Country", "Year", "tb_deaths">>}

OwidSchemas == {<<"Entity", "Year", "tb_deaths">>, <<"country", "year", "tb_incidence">>}

WhoSchemas == {<<"Entity", "Year", "tb_treatment_success_rate">>}

GenericInputs == {Frame(s, q) : s \in GenericSchemas, q \in SeqsUpTo(OwidCells, MaxRows)}

OwidInputs == {Frame(s, q) : s \in OwidSchemas, q \in SeqsUpTo(OwidCells, MaxRows)}

WhoInputs == {Frame(s, q) : s \in WhoSchemas, q \in SeqsUpTo(WhoCells, MaxRows)}

----------------------------------------------------------------------------
\* The cleaning specification: one of the three cleaners is called on a raw
\* frame.

InitClean ==
    /\ cleaned = None /\ flagged = None /\ owid_clean = None /\ who_clean = None
    /\ merged = None /\ top = None /\ args = NoArgs /\ run = NoRun
    /\ \/ frame \in GenericInputs /\ owid_raw = None /\ who_raw = None
       \/ frame = None /\ owid_raw \in OwidInputs /\ who_raw = None
       \/ frame = None /\ owid_raw = None /\ who_raw \in WhoInputs

CleanTb ==
    /\ frame # None /\ cleaned = None
    /\ cleaned' = clean_tb_data(frame)
    /\ frame' = clean_tb_data_df(frame)
    /\ UNCHANGED <<flagged, owid_raw, who_raw, owid_clean, who_clean, merged, top,
                   args, run>>

CleanOwid ==
    /\ owid_raw # None /\ owid_clean = None
    /\ owid_clean' = clean_owid_data(owid_raw)
    /\ owid_raw' = clean_source_data_df(owid_raw)
    /\ UNCHANGED <<frame, cleaned, flagged, who_raw, who_clean, merged, top,
                   args, run>>

CleanWho ==
    /\ who_raw # None /\ who_clean = None
    /\ who_clean' = clean_who_data(who_raw)
    /\ who_raw' = clean_source_data_df(who_raw)
    /\ UNCHANGED <<frame, cleaned, flagged, owid_raw, owid_clean, merged, top,
                   args, run>>

NextClean == CleanTb \/ CleanOwid \/ CleanWho

SpecClean == InitClean /\ [][NextClean]_vars

----------------------------------------------------------------------------
\* Properties of the cleaners (SpecClean)

\* The name a raw column has after the alias renames and standardization.
Canonical(name) ==
    NormalizeName(CASE name = "Entity" -> "country"
                    [] name = "Year" -> "year"
                    [] name = "Estimated incidence of all forms of tuberculosis"
                         -> "tb_incidence"
                    [] OTHER -> name)

\* The cell a row of a cleaned frame had in the raw frame, by its label.
RawCell(raw, row, col) ==
    raw.rows[row.src].c[CHOOSE o \in raw.cols : Canonical(o) = col]

HasKeys(f) == f.st = "ok" /\ {"country", "year"} \subseteq f.cols

KeysValid(f) ==
    HasKeys(f) =>
        /\ "year" \in f.num
        /\ \A i \in 1..Len(f.rows) :
              /\ ~isna(f.rows[i].c["country"])
              /\ f.rows[i].c["year"].k = "num"
              /\ MIN_YEAR <= f.rows[i].c["year"].v
              /\ f.rows[i].c["year"].v <= MAX_YEAR

\* C1: every row a cleaner returns has a non-null country and a non-null
\* integer year with MIN_YEAR <= year <= MAX_YEAR.
C1_KeysValid == KeysValid(cleaned) /\ KeysValid(owid_clean) /\ KeysValid(who_clean)

\* C1's case: a cleaner returned rows and dropped a row with a null country
\* and a row with a year under the window.
C1_Witness ==
    /\ HasKeys(owid_clean)
    /\ Len(owid_clean.rows) = 1
    /\ \E i, j \in 1..Len(owid_raw.rows) :
          /\ \E c \in owid_raw.cols : Canonical(c) = "country" /\ isna(owid_raw.rows[i].c[c])
          /\ \E c \in owid_raw.cols :
                Canonical(c) = "year" /\ owid_raw.rows[j].c[c] = Num(MIN_YEAR - 1)

InOrder(f) ==
    HasKeys(f) =>
        \A i, j \in 1..Len(f.rows) :
            i < j =>
                \/ f.rows[i].c["country"].v < f.rows[j].c["country"].v
                \/ /\ f.rows[i].c["country"].v = f.rows[j].c["country"].v
                   /\ f.rows[i].c["year"].v <= f.rows[j].c["year"].v

\* C2: the rows clean_owid_data and clean_who_data return are in
\* non-decreasing (country, year) order.
C2_Sorted == InOrder(owid_clean) /\ InOrder(who_clean)

\* C2's case: the raw rows were out of order, and a row between two kept
\* rows was dropped for having no indicator.
C2_Witness ==
    /\ HasKeys(owid_clean)
    /\ "tb_incidence" \in owid_clean.cols
    /\ Len(owid_raw.rows) = 3
    /\ Len(owid_clean.rows) = 2
    /\ owid_clean.rows[1].src = 3
    /\ owid_clean.rows[2].src = 1
    /\ owid_raw.rows[2].c["country"] = Name(2)
    /\ owid_raw.rows[2].c["year"] = Num(2000)
    /\ owid_raw.rows[1].c["year"] = Num(2001)

\* The frame clean_owid_data imputes: what clean_tb_data returned to it.
OwidBase == clean_tb_data(RenameAliases(owid_raw))

\* Row k of base had col missing and an earlier row of its country had a
\* value: the positions of those earlier rows.
EarlierKnown(base, k, col) ==
    {j \in 1..(k - 1) :
        /\ base.rows[j].c["country"] = base.rows[k].c["country"]
        /\ ~isna(base.rows[j].c[col])}

SetMax(S) == CHOOSE x \in S : \A y \in S : y <= x

ForwardFilled(base, out) ==
    \A i \in 1..Len(out.rows) :
       \A col \in out.num \ {"country", "year"} :
          \A k \in 1..Len(base.rows) :
             (base.rows[k].src = out.rows[i].src /\ isna(base.rows[k].c[col])
                /\ EarlierKnown(base, k, col) # {})
             => out.rows[i].c[col] = base.rows[SetMax(EarlierKnown(base, k, col))].c[col]

C7_Raw ==
    Frame(<<"Entity", "Year", "tb_deaths">>,
          << <<Name(1), Text(2000), Num(10)>>,
             <<Name(1), Num(2001), Null>>,
             <<Name(2), Num(2000), Num(5)>> >>)

C7_Cells ==
    << [country |-> Name(1), year |-> Num(2000), tb_deaths |-> Num(10)],
       [country |-> Name(1), year |-> Num(2001), tb_deaths |-> Num(10)],
       [country |-> Name(2), year |-> Num(2000), tb_deaths |-> Num(5)] >>

Cells(f) == [i \in 1..Len(f.rows) |-> f.rows[i].c]

SameTable(f, g) == f.st = g.st /\ f.cols = g.cols /\ Cells(f) = Cells(g)

\* C3: cleaning is idempotent: cleaning a cleaner's own output returns the
\* same table, for clean_owid_data and for clean_who_data.
C3_Idempotent ==
    /\ owid_clean.st = "ok" => SameTable(clean_owid_data(owid_clean), owid_clean)
    /\ who_clean.st = "ok" => SameTable(clean_who_data(who_clean), who_clean)

\* The cells of the rows of one country, in order.
RECURSIVE CountryCells(_, _, _)
CountryCells(f, country, i) ==
    IF i > Len(f.rows) THEN <<>>
    ELSE IF f.rows[i].c["country"] = country
         THEN <<f.rows[i].c>> \o CountryCells(f, country, i + 1)
         ELSE CountryCells(f, country, i + 1)

\* What a caller sees of one country in a cleaner's result.
ViewOf(f, country) ==
    IF HasKeys(f) THEN <<"ok", CountryCells(f, country, 1)>> ELSE <<f.st, <<>>>>

\* The raw frames that differ from raw in one row, which keeps its country.
OtherCells == {Null, Num(2000), Num(10), Text(2000), Token, Frac(2000)}

Variants(raw, i) ==
    LET key == CHOOSE o \in raw.cols : Canonical(o) = "country"
    IN {DataFrame(raw.cols,
                  [j \in 1..Len(raw.rows) |-> IF j = i THEN alt ELSE raw.rows[j].c]) :
          alt \in {[r EXCEPT ![key] = raw.rows[i].c[key]] : r \in [raw.cols -> OtherCells]}}

\* C4: the cleaned rows of a country A are the same whatever the rows of
\* another country B contain.
C4_Locality ==
    owid_clean # None =>
        \A i \in 1..Len(owid_raw.rows) :
           \A other \in Variants(owid_raw, i) :
              \A a \in {Name(1), Name(2)} :
                 a # RawCell(owid_raw, [src |-> i], "country")
                 => ViewOf(clean_owid_data(other), a) = ViewOf(owid_clean, a)

\* The number a raw cell reads as is greater than 100.
Over100(cell) == to_numeric(cell).k = "num" /\ to_numeric(cell).v > 100

Clamped(raw, out) ==
    out.st = "ok" =>
        \A i \in 1..Len(out.rows) :
           \A col \in out.cols :
              (IsPercentageCol(col) /\ Over100(RawCell(raw, out.rows[i], col)))
              => isna(out.rows[i].c[col])

\* C5: in a column whose name contains 'success_rate' or 'coverage', every
\* cell whose input value is greater than 100 is null in the cleaned table.
C5_Clamp == Clamped(owid_raw, owid_clean) /\ Clamped(who_raw, who_clean)

----------------------------------------------------------------------------
\* The merge specification: both sources are cleaned, then compared.

\* Bound: the most rows a raw frame of the merge specification holds.
MaxMergeRows == 2

MergeCells ==
    {<<Name(1), Num(2000), Num(10)>>, <<Name(1), Num(2000), Num(20)>>,
     <<Name(1), Num(2001), Num(10)>>, <<Name(2), Num(2000), Num(10)>>,
     <<Name(2), Num(2000), Null>>}

MergeOwidInputs ==
    {Frame(<<"Entity", "Year", "tb_incidence">>, q) : q \in SeqsUpTo(MergeCells, MaxMergeRows)}

MergeWhoInputs ==
    {Frame(s, q) : s \in {<<"country", "year", "tb_incidence">>,
                          <<"country", "year", "tb_cases_notified">>},
                   q \in SeqsUpTo(MergeCells, MaxMergeRows)}

InitMerge ==
    /\ frame = None /\ cleaned = None /\ flagged = None /\ top = None /\ args = NoArgs
    /\ run = NoRun
    /\ owid_clean = None /\ who_clean = None /\ merged = None
    /\ owid_raw \in MergeOwidInputs
    /\ who_raw \in MergeWhoInputs

Compare ==
    /\ owid_clean.st = "ok" /\ who_clean.st = "ok" /\ merged = None
    /\ merged' = compare_incidence_vs_treatment_success(owid_clean, who_clean)
    /\ UNCHANGED <<frame, cleaned, flagged, owid_raw, who_raw, owid_clean, who_clean, top,
                   args, run>>

NextMerge == CleanOwid \/ CleanWho \/ Compare

SpecMerge == InitMerge /\ [][NextMerge]_vars

\* The (country, year) keys of a frame's rows.
Keys(f) == {<<f.rows[i].c["country"], f.rows[i].c["year"]>> : i \in 1..Len(f.rows)}

\* C6: the merged table has as many rows as there are distinct (country,
\* year) keys present in both cleaned tables, and every key of the merged
\* table is a key of both.
C6_MergeCount ==
    merged # None =>
        /\ Len(merged.rows) = Cardinality(Keys(owid_clean) \cap Keys(who_clean))
        /\ \A i \in 1..Len(merged.rows) :
              <<merged.rows[i].c["country"], merged.rows[i].c["year"]>>
                 \in Keys(owid_clean) \cap Keys(who_clean)

----------------------------------------------------------------------------
\* src/src/analysis.py: the top-N rankings

IsString(cell) == cell.k \in {"str", "text"}

\* Twice the number a numeric cell holds.
Twice(cell) == IF cell.k = "frac" THEN 2 * cell.v + 1 ELSE 2 * cell.v

\* Where a string cell stands among the strings of the model: numerals come
\* before the capitalized country names, and those before the token.
StrOrd(cell) ==
    CASE cell.k = "text" -> 0
      [] cell.k = "str" /\ cell.v >= 1 -> 1
      [] OTHER -> 2

\* a >= b as Python compares two cells of one type.
CellGeq(a, b) ==
    IF IsString(a)
    THEN StrOrd(a) > StrOrd(b) \/ (StrOrd(a) = StrOrd(b) /\ a.v >= b.v)
    ELSE Twice(a) >= Twice(b)

\* The orders sort_values(col, ascending=False) may leave the rows in.  One
\* sort column and the default kind='quicksort': the sort is not stable, so
\* rows of equal value come out in an order pandas does not promise.
DescendingOrders(rows, col) ==
    LET n == Len(rows)
    IN {p \in [1..n -> 1..n] :
          /\ \A i, j \in 1..n : i # j => p[i] # p[j]
          /\ \A i, j \in 1..n : i < j => CellGeq(rows[p[i]].c[col], rows[p[j]].c[col])}

\* .head(n): the first n rows, or all but the last -n when n is negative.
head(rows, n) ==
    LET len == Len(rows)
        m == IF n >= 0 THEN (IF n < len THEN n ELSE len)
             ELSE (IF len + n > 0 THEN len + n ELSE 0)
    IN SubSeq(rows, 1, m)

\* df['year'].max() of a cleaned frame, whose years are integers.
MaxYear(df) ==
    LET years == {df.rows[i].c["year"].v : i \in 1..Len(df.rows)}
    IN Num(CHOOSE y \in years : \A z \in years : z <= y)

\* The body the two rankings share: every frame the call may return.  year
\* is Null for None.
TopBy(df, year, n, ranking_col) ==
    IF df.rows = <<>> \/ df.cols = {} THEN {EmptyFrame}
    ELSE IF "year" \notin df.cols THEN {Raised}
    ELSE LET target == IF isna(year) THEN MaxYear(df) ELSE year
             year_data == SelectRows(df, {i \in 1..Len(df.rows) :
                                            df.rows[i].c["year"] = target})
         IN IF ranking_col \notin year_data.cols THEN {EmptyFrame}
            ELSE LET known == dropna(year_data, {ranking_col}, "any")
                     ranks == {known.rows[i].c[ranking_col] : i \in 1..Len(known.rows)}
                 IN IF \E a, b \in ranks : IsString(a) /\ ~IsString(b) THEN {Raised}
                    ELSE IF "country" \notin known.cols THEN {Raised}
                    ELSE {Project([known EXCEPT
                                     !.rows = head([i \in 1..Len(known.rows) |->
                                                      known.rows[p[i]]], n)],
                                  {"country", "year", ranking_col}) :
                            p \in DescendingOrders(known.rows, ranking_col)}

owid_top_affected_countries(df, year, n) == TopBy(df, year, n, "tb_incidence")

who_top_performers(df, year, n) == TopBy(df, year, n, "tb_treatment_success_rate")

----------------------------------------------------------------------------
\* The ranking specification: one source is cleaned, then ranked.

\* Bound: the most rows a raw frame of the ranking specification holds.
MaxTopRows == 3

\* A country, a year, the ranking indicator and a second indicator that is
\* always known, so that a row with no ranking value survives cleaning.
TopCells ==
    {<<Name(i), Num(y), x, Num(1)>> : i \in 3..5, y \in {2019, 2020},
                                      x \in {Null, Num(90), Num(95)}}

TopOwidInputs ==
    {Frame(s, q) : s \in {<<"country", "year", "tb_incidence", "population">>,
                          <<"country", "year", "tuberculosis_deaths", "population">>},
                   q \in SeqsUpTo(TopCells, MaxTopRows)}

TopWhoInputs ==
    {Frame(<<"country", "year", "tb_treatment_success_rate", "tb_cases_notified">>, q) :
       q \in SeqsUpTo(TopCells, MaxTopRows)}

TopYears == {Null, Num(2019), Num(2020)}

TopCounts == {1, 2, TOP_N_COUNTRIES}

InitTop ==
    /\ frame = None /\ cleaned = None /\ flagged = None /\ merged = None
    /\ owid_clean = None /\ who_clean = None /\ top = None /\ args = NoArgs /\ run = NoRun
    /\ \/ owid_raw \in TopOwidInputs /\ who_raw = None
       \/ owid_raw = None /\ who_raw \in TopWhoInputs

OwidTop ==
    /\ owid_clean.st = "ok" /\ top = None
    /\ \E year \in TopYears, n \in TopCounts :
          /\ top' \in owid_top_affected_countries(owid_clean, year, n)
          /\ args' = [NoArgs EXCEPT !.year = year, !.n = n]
    /\ UNCHANGED <<frame, cleaned, flagged, owid_raw, who_raw, owid_clean, who_clean,
                   merged, run>>

WhoTop ==
    /\ who_clean.st = "ok" /\ top = None
    /\ \E year \in TopYears, n \in TopCounts :
          /\ top' \in who_top_performers(who_clean, year, n)
          /\ args' = [NoArgs EXCEPT !.year = year, !.n = n]
    /\ UNCHANGED <<frame, cleaned, flagged, owid_raw, who_raw, owid_clean, who_clean,
                   merged, run>>

NextTop == CleanOwid \/ CleanWho \/ OwidTop \/ WhoTop

SpecTop == InitTop /\ [][NextTop]_vars

\* The frame that was ranked and its ranking column.
Ranked == IF owid_raw # None THEN owid_clean ELSE who_clean

RankingCol == IF owid_raw # None THEN "tb_incidence" ELSE "tb_treatment_success_rate"

\* The period of the last ranking: the one asked for, or the latest present.
Period == IF isna(args.year) THEN MaxYear(Ranked) ELSE args.year

\* The rows in descending order of col, rows of equal value in their
\* original order.
RECURSIVE StableDescending(_, _)
StableDescending(rows, col) ==
    IF rows = <<>> THEN <<>>
    ELSE LET n == Len(rows)
             s == StableDescending(SubSeq(rows, 1, n - 1), col)
             r == rows[n]
             p == Cardinality({i \in 1..Len(s) : CellGeq(s[i].c[col], r.c[col])})
         IN SubSeq(s, 1, p) \o <<r>> \o SubSeq(s, p + 1, Len(s))

\* The period's rows that have a ranking value, in their original order.
PeriodRows ==
    IF Ranked.rows = <<>> \/ RankingCol \notin Ranked.cols THEN <<>>
    ELSE TakeRows(Ranked.rows,
                  {i \in 1..Len(Ranked.rows) :
                     /\ Ranked.rows[i].c["year"] = Period
                     /\ ~isna(Ranked.rows[i].c[RankingCol])}, 1)

\* The scenario of C8: the period-2020 rows are (X, 90), (Y, 95), (Z, null)
\* and the two first are asked for.
C8_Case ==
    /\ top # None /\ args.n = 2 /\ Ranked.rows # <<>> /\ RankingCol \in Ranked.cols
    /\ Period = Num(2020)
    /\ LET rows == TakeRows(Ranked.rows, {i \in 1..Len(Ranked.rows) :
                                            Ranked.rows[i].c["year"] = Period}, 1)
       IN [i \in 1..Len(rows) |-> <<rows[i].c["country"], rows[i].c[RankingCol]>>]
            = << <<Name(3), Num(90)>>, <<Name(4), Num(95)>>, <<Name(5), Null>> >>

C8_Scenario ==
    C8_Case => [i \in 1..Len(top.rows) |-> top.rows[i].c["country"]] = <<Name(4), Name(3)>>

\* C8: a top-N ranking returns exactly the first N of the period's rows
\* with a non-null ranking indicator, in descending order of the indicator,
\* rows of equal value in their original order; and over the period-2020
\* rows (X, 90), (Y, 95), (Z, null) with N = 2 it returns Y, then X.
C8_TopN ==
    /\ top # None =>
          /\ top.st = "ok"
          /\ [i \in 1..Len(top.rows) |-> top.rows[i].c]
               = LET want == head(StableDescending(PeriodRows, RankingCol), args.n)
                 IN [i \in 1..Len(want) |->
                       [col \in {"country", "year", RankingCol} |-> want[i].c[col]]]
    /\ C8_Scenario

----------------------------------------------------------------------------
\* src/src/data_cleaning.py: identify_outliers

\* The positions of df[col].dropna(): the rows stats.zscore is given.
Scored(df, col) == {i \in 1..Len(df.rows) : ~isna(df.rows[i].c[col])}

\* np.abs(stats.zscore(...)) > zscore_threshold for the value x of one of
\* the scored cells: |x - mean| / std > threshold with the population
\* standard deviation (ddof = 0), in integers.  With n values of sum s and
\* sum of squares q it reads (n x - s)^2 > threshold^2 (n q - s^2); a
\* constant column scores NaN, which exceeds nothing.
RECURSIVE Sum(_, _)
Sum(f, S) ==
    IF S = {} THEN 0
    ELSE LET i == CHOOSE x \in S : TRUE
         IN f[i] + Sum(f, S \ {i})

ZAbove(df, col, i, zscore_threshold) ==
    LET idx == Scored(df, col)
        x == [j \in idx |-> Twice(df.rows[j].c[col])]
        n == Cardinality(idx)
        s == Sum(x, idx)
        q == Sum([j \in idx |-> x[j] * x[j]], idx)
        d == n * x[i] - s
    IN d * d > zscore_threshold * zscore_threshold * (n * q - s * s)

\* outliers = z_scores > zscore_threshold: a boolean for every scored row.
Outliers(df, col, zscore_threshold) ==
    [i \in Scored(df, col) |-> ZAbove(df, col, i, zscore_threshold)]

\* The loop body for one column fails when the column holds a string
\* (its mean cannot be taken), when no value is left after dropna (zscore
\* returns a bare array, which has no index), and when the installed scipy
\* returns a bare array for a Series (series = FALSE).
ColumnFails(df, col, series) ==
    \/ col \notin df.num
    \/ Scored(df, col) = {}
    \/ ~series

\* A variant of identify_outliers that hands back only the rows it scored.
identify_outliers_scored_only(df, columns, zscore_threshold, series) ==
    LET present == columns \cap df.cols
        kept == UNION {Scored(df, col) : col \in present}
        sub == SelectRows(df, kept)
    IN [sub EXCEPT
          !.cols = @ \cup {"is_outlier"},
          !.rows = [i \in 1..Len(sub.rows) |->
                      [sub.rows[i] EXCEPT
                         !.c = [n \in df.cols \cup {"is_outlier"} |->
                                  IF n = "is_outlier" THEN Bool(FALSE)
                                  ELSE sub.rows[i].c[n]]]]]

\* identify_outliers(df, columns, zscore_threshold).  df.loc[outliers.index,
\* 'is_outlier'] = True sets the flag on every label of outliers.
identify_outliers(df, columns, zscore_threshold, series) ==
    LET present == columns \cap df.cols
    IN IF \E col \in present : ColumnFails(df, col, series) THEN Raised
       ELSE LET hit == UNION {DOMAIN Outliers(df, col, zscore_threshold) : col \in present}
            IN [df EXCEPT
                  !.cols = @ \cup {"is_outlier"},
                  !.rows = [i \in 1..Len(df.rows) |->
                              [df.rows[i] EXCEPT
                                 !.c = [n \in df.cols \cup {"is_outlier"} |->
                                          IF n = "is_outlier" THEN Bool(i \in hit)
                                          ELSE df.rows[i].c[n]]]]]

\* The caller's table after identify_outliers has returned or raised: the
\* function copies (line 190) and then writes the is_outlier column into
\* the table bound to df (lines 191, 197).
identify_outliers_df(df, columns, zscore_threshold, series) ==
    IF copy(df).object = "argument"
    THEN LET out == identify_outliers(df, columns, zscore_threshold, series)
         IN IF out = Raised THEN identify_outliers(df, {}, zscore_threshold, series)
            ELSE out
    ELSE df

----------------------------------------------------------------------------
\* The outlier specification: identify_outliers is called on a frame of one
\* column.

\* Bound: the most rows a frame of the outlier specification holds.
MaxOutlierRows == 5

OutlierValues == {Null, Num(1), Num(2), Num(3), Num(100)}

OutlierInputs ==
    {Frame(<<"value">>, q) :
       q \in SeqsUpTo({<<x>> : x \in OutlierValues}, MaxOutlierRows)}

OutlierColumns == {{"value"}, {"value", "other"}, {"other"}}

Thresholds == {2, OUTLIER_ZSCORE}

InitOutliers ==
    /\ frame \in OutlierInputs
    /\ cleaned = None /\ flagged = None /\ owid_raw = None /\ who_raw = None
    /\ owid_clean = None /\ who_clean = None /\ merged = None /\ top = None
    /\ args = NoArgs /\ run = NoRun

IdentifyOutliers ==
    /\ frame # None /\ flagged = None
    /\ \E columns \in OutlierColumns, zscore_threshold \in Thresholds, series \in BOOLEAN :
          /\ flagged' = identify_outliers(frame, columns, zscore_threshold, series)
          /\ frame' = identify_outliers_df(frame, columns, zscore_threshold, series)
          /\ args' = [NoArgs EXCEPT !.columns = columns,
                                    !.zscore_threshold = zscore_threshold]
    /\ UNCHANGED <<cleaned, owid_raw, who_raw, owid_clean, who_clean, merged, top, run>>

NextOutliers == IdentifyOutliers

SpecOutliers == InitOutliers /\ [][NextOutliers]_vars

\* The is_outlier flags of a flagged frame, row by row.
Flags(f) == [i \in 1..Len(f.rows) |-> f.rows[i].c["is_outlier"].v = 1]

\* C9: over the single column [1, 2, 2, 3, 100] with threshold 3,
\* identify_outliers sets is_outlier to true on the row holding 100 and to
\* false on the other four rows.
C9_Scenario ==
    (/\ flagged # None
     /\ Cells(frame) = [i \in 1..5 |-> [value |-> Num(<<1, 2, 2, 3, 100>>[i])]]
     /\ args.columns = {"value"}
     /\ args.zscore_threshold = 3)
    => /\ flagged.st = "ok"
       /\ Flags(flagged) = <<FALSE, FALSE, FALSE, FALSE, TRUE>>

\* C10: in the table identify_outliers returns a row is flagged if and only
\* if, for a requested column of the table, its value is non-null and its
\* absolute standardized score exceeds the threshold.
C10_FlagIffAbove ==
    flagged.st = "ok" =>
        \A i \in 1..Len(flagged.rows) :
           Flags(flagged)[i]
             <=> \E col \in args.columns \cap frame.cols :
                    /\ ~isna(frame.rows[i].c[col])
                    /\ ZAbove(frame, col, i, args.zscore_threshold)

----------------------------------------------------------------------------
\* More properties of the cleaners

\* The frame clean_who_data imputes: what clean_tb_data returned to it,
\* its percentage columns clamped.
WhoBase ==
    LET d1 == clean_tb_data(RenameAliases(who_raw))
    IN ClampColumns(d1, {c \in d1.cols : IsPercentageCol(c)})

\* The later rows of the country of row k of base that have a value in col.
LaterKnown(base, k, col) ==
    {j \in (k + 1)..Len(base.rows) :
        /\ base.rows[j].c["country"] = base.rows[k].c["country"]
        /\ ~isna(base.rows[j].c[col])}

SetMin(S) == CHOOSE x \in S : \A y \in S : x <= y

BackwardFilled(base, out) ==
    \A i \in 1..Len(out.rows) :
       \A col \in out.num \ {"country", "year"} :
          \A k \in 1..Len(base.rows) :
             (base.rows[k].src = out.rows[i].src /\ isna(base.rows[k].c[col])
                /\ EarlierKnown(base, k, col) = {} /\ LaterKnown(base, k, col) # {})
             => out.rows[i].c[col] = base.rows[SetMin(LaterKnown(base, k, col))].c[col]

\* C11: after cleaning, a missing numeric value with no earlier known value
\* in its country and a later known one holds the nearest later known
\* value of that country.
C11_BackwardFill ==
    /\ HasKeys(owid_clean) => BackwardFilled(OwidBase, owid_clean)
    /\ HasKeys(who_clean) => BackwardFilled(WhoBase, who_clean)

\* No two rows of the frame are equal in every column.
NoDuplicates(f) ==
    \A i, j \in 1..Len(f.rows) : i # j => f.rows[i].c # f.rows[j].c

\* C12: the table clean_owid_data / clean_who_data returns holds no two
\* rows that are equal in every column.
C12_NoDuplicates ==
    /\ owid_clean.st = "ok" => NoDuplicates(owid_clean)
    /\ who_clean.st = "ok" => NoDuplicates(who_clean)

\* C14: for a raw table that has the country and year columns the cleaner
\* returns a table, whatever the cells hold: a year that is no integer only
\* drops its row, and no string is left in an indicator column.
C14_NeverRaises ==
    /\ owid_clean # None =>
          /\ owid_clean.st = "ok"
          /\ \A i \in 1..Len(owid_clean.rows) : \A col \in owid_clean.cols \ {"country"} :
                ~IsString(owid_clean.rows[i].c[col])
    /\ who_clean # None =>
          /\ who_clean.st = "ok"
          /\ \A i \in 1..Len(who_clean.rows) : \A col \in who_clean.cols \ {"country"} :
                ~IsString(who_clean.rows[i].c[col])

----------------------------------------------------------------------------
\* The key-column specification: a cleaner is called on a raw frame that
\* lacks the country column, the year column or both.

\* Bound: the most rows a raw frame of the key-column specification holds.
MaxKeyRows == 2

KeylessValues == {Null, Num(10)}

\* The rows of a frame with a country and no year, with a year and no
\* country, and with neither.
NoYearCells == {<<c, x>> : c \in {Name(1), Name(2), Null}, x \in KeylessValues}

NoCountryCells ==
    {<<y, x>> : y \in {Num(2000), Num(2001), Text(2000), Null, Num(MIN_YEAR - 1)},
                x \in KeylessValues}

NoKeyCells == {<<x, z>> : x \in KeylessValues, z \in KeylessValues}

KeylessInputs(country, year) ==
    {Frame(<<country, "tb_deaths">>, q) : q \in SeqsUpTo(NoYearCells, MaxKeyRows)}
      \cup {Frame(<<year, "tb_deaths">>, q) : q \in SeqsUpTo(NoCountryCells, MaxKeyRows)}
      \cup {Frame(<<"tb_deaths", "population">>, q) : q \in SeqsUpTo(NoKeyCells, MaxKeyRows)}

InitKeys ==
    /\ cleaned = None /\ flagged = None /\ owid_clean = None /\ who_clean = None
    /\ merged = None /\ top = None /\ args = NoArgs /\ run = NoRun
    /\ \/ frame \in KeylessInputs("Country", "Year") /\ owid_raw = None /\ who_raw = None
       \/ frame = None /\ owid_raw \in KeylessInputs("Entity", "Year") /\ who_raw = None
       \/ frame = None /\ owid_raw = None /\ who_raw \in KeylessInputs("country", "year")

NextKeys == CleanTb \/ CleanOwid \/ CleanWho

SpecKeys == InitKeys /\ [][NextKeys]_vars

\* What a cleaner does with a raw frame that has no country or no year
\* after the renames: it fails, and returns no table.
Rejected(raw, out) ==
    (out # None /\ ~({"country", "year"} \subseteq {Canonical(c) : c \in raw.cols}))
    => out.st = "error"

\* C13: a table that lacks the country column or the year column after
\* alias renaming makes cleaning fail with a schema error; no table that
\* lacks a key column is returned.
C13_SchemaError ==
    /\ Rejected(frame, cleaned) /\ Rejected(owid_raw, owid_clean)
    /\ Rejected(who_raw, who_clean)
    /\ \A out \in {cleaned, owid_clean, who_clean} :
          out.st = "ok" => {"country", "year"} \subseteq out.cols

----------------------------------------------------------------------------
\* More properties of the merge (SpecMerge)

\* The column names that name the source they come from.
SourceQualified(source) ==
    IF source = "owid" THEN {"owid_tb_incidence", "tb_incidence_owid"}
    ELSE {"who_tb_incidence", "tb_incidence_who"}

\* Every row of the merged table holds in column col a tb_incidence value
\* that the cleaned table has for the row's key.
Carries(col, clean) ==
    \A i \in 1..Len(merged.rows) :
       \E j \in 1..Len(clean.rows) :
          /\ clean.rows[j].c["country"] = merged.rows[i].c["country"]
          /\ clean.rows[j].c["year"] = merged.rows[i].c["year"]
          /\ clean.rows[j].c["tb_incidence"] = merged.rows[i].c[col]

\* The two indicator columns of the merged table are distinct and neither
\* value overwrites the other.
BothCarried(a, b) ==
    /\ a # b /\ {a, b} \subseteq merged.cols
    /\ Carries(a, owid_clean) /\ Carries(b, who_clean)

\* C19: every row of the merged table carries the OWID value and the WHO
\* value of its key in two columns of distinct names, each name qualified
\* by its source.
C19_SourceQualified ==
    (merged.st = "ok" /\ merged.rows # <<>>) =>
        \E a \in SourceQualified("owid"), b \in SourceQualified("who") : BothCarried(a, b)

----------------------------------------------------------------------------
\* src/src/pipeline.py: TBAnalysisPipeline

\* A test for emptiness that never finds a frame empty.
empty_never(df) == FALSE

\* df.empty
empty(df) == df.rows = <<>> \/ df.cols = {}

\* int(df['year'].max()) and int(df['year'].min()) raise: there is no year
\* column, or no row (the maximum is <NA>).
NoLatestYear(df) == "year" \notin df.cols \/ df.rows = <<>>

\* The try block of analyze_owid raises on the table itself (lines 113-138):
\* no table; the mean of a tb_incidence column that holds strings; no
\* latest year; the ranking; no country column.
OwidAnalysisRaises(df) ==
    \/ df = None
    \/ /\ {"tuberculosis_deaths", "tb_incidence"} \subseteq df.cols
       /\ "year" \notin df.cols \/ "tb_incidence" \notin df.num
    \/ NoLatestYear(df)
    \/ Raised \in owid_top_affected_countries(df, MaxYear(df), 10)
    \/ "country" \notin df.cols

\* analyze_owid calls a plot function that saves a figure: the ranking and
\* the country trends are plotted when there is a tb_incidence column.
OwidPlots(df) == "tb_incidence" \in df.cols

\* The try block of analyze_who raises on the table itself (lines 159-180).
WhoAnalysisRaises(df) ==
    \/ df = None
    \/ "tb_treatment_success_rate" \in df.cols /\ "year" \notin df.cols
    \/ NoLatestYear(df)
    \/ Raised \in who_top_performers(df, MaxYear(df), 10)
    \/ "tb_cases_detected" \in df.cols \ df.num

WhoPlots(df) == "tb_treatment_success_rate" \in df.cols

\* compare_incidence_vs_treatment_success(self.owid_clean, self.who_clean)
\* (line 203), the fields being None included: None has no columns.
Compared(owid_df, who_df) ==
    IF owid_df = None THEN Raised
    ELSE IF "tb_incidence" \in owid_df.cols /\ who_df = None THEN Raised
    ELSE compare_incidence_vs_treatment_success(owid_df, who_df)

\* df.to_csv(path, index=False) as pd.read_csv reads it back: the columns
\* and the cells of df, without its row labels.
to_csv(df) == DataFrame(df.cols, Cells(df))

\* generate_summary raises (lines 229-237; nothing catches it).
SummaryRaises ==
    \E df \in {owid_clean, who_clean} :
       df # None /\ (NoLatestYear(df) \/ "country" \notin df.cols)

\* The calls in the list run() builds (lines 254-260), in order.
Stages == <<"load_data", "clean_data", "analyze_owid", "analyze_who", "analyze_combined">>

\* What run() does after a stage has returned: the next element of the
\* list is evaluated, whatever the stage returned; after the last one
\* comes generate_summary.
After(stage) ==
    LET i == CHOOSE k \in 1..Len(Stages) : Stages[k] = stage
    IN IF i < Len(Stages) THEN Stages[i + 1] ELSE "generate_summary"

Returned(stage, ok) == [run EXCEPT !.pc = After(stage), !.results = Append(@, ok)]

\* all([...]) of the stage results.
all(results) == \A i \in 1..Len(results) : results[i]

----------------------------------------------------------------------------
\* The run specification: run() is called on one pipeline object, up to
\* MaxRuns times, over raw files that may change between calls.

\* Bounds: the calls of run() on the object, and the most rows of a raw file.
MaxRuns == 2

MaxRunRows == 1

\* The rows of the raw files: two countries, a year with a fractional
\* part, a year under the window.
RunCells ==
    {<<Name(1), Num(2000), Num(10)>>, <<Name(2), Num(2000), Num(10)>>,
     <<Name(1), Frac(2000), Num(10)>>, <<Name(1), Num(MIN_YEAR - 1), Num(10)>>}

\* What load_owid_data can return: the file read_csv reads has at least one
\* row (an empty one raises, line 37).
RunOwidFiles ==
    {Frame(<<"Entity", "Year", "tb_incidence">>, q) :
       q \in SeqsUpTo(RunCells, MaxRunRows) \ {<<>>}}

\* What load_who_data can return; one WHO file has no country column and
\* no tb_incidence.
RunWhoFiles ==
    {Frame(<<"country", "year", "tb_incidence">>, q) :
       q \in SeqsUpTo(RunCells, MaxRunRows) \ {<<>>}}
      \cup {Frame(<<"year", "tb_cases_notified">>, q) :
              q \in SeqsUpTo({<<Num(2000), Num(5)>>}, MaxRunRows) \ {<<>>}}

InitRun ==
    /\ frame = None /\ cleaned = None /\ flagged = None /\ top = None /\ args = NoArgs
    /\ owid_raw = None /\ who_raw = None /\ owid_clean = None /\ who_clean = None
    /\ merged = None
    /\ run = NoRun

\* run() is called (line 242): main() calls it once on a new object; a
\* caller that keeps the object can call it again.
Run ==
    /\ run.pc \in {"idle", "returned", "raised"}
    /\ run.count < MaxRuns
    /\ run' = [NoRun EXCEPT !.pc = Stages[1], !.count = run.count + 1,
                            !.disk = run.disk]
    /\ UNCHANGED <<frame, cleaned, flagged, owid_raw, who_raw, owid_clean, who_clean,
                   merged, top, args>>

\* load_data (lines 46-70).  Each loader returns a frame or raises (file
\* missing, empty or unreadable).
LoadData ==
    /\ run.pc = "load_data"
    /\ \E o \in RunOwidFiles \cup {Raised}, w \in RunWhoFiles \cup {Raised} :
          /\ owid_raw' = IF o = Raised THEN owid_raw ELSE o
          /\ who_raw' = IF o = Raised \/ w = Raised THEN who_raw ELSE w
          /\ run' = Returned("load_data", o # Raised /\ w # Raised)
    /\ UNCHANGED <<frame, cleaned, flagged, owid_clean, who_clean, merged, top, args>>

\* clean_data (lines 72-99).  fault names the to_csv call that raises.
CleanData ==
    /\ run.pc = "clean_data"
    /\ \E fault \in {"none", "owid_cleaned", "who_cleaned"} :
          LET o == IF owid_raw = None THEN Raised ELSE clean_owid_data(owid_raw)
              w == IF o = Raised \/ who_raw = None THEN Raised ELSE clean_who_data(who_raw)
              saved == IF w = Raised \/ fault = "owid_cleaned" THEN {}
                       ELSE IF fault = "who_cleaned" THEN {"owid_cleaned"}
                       ELSE {"owid_cleaned", "who_cleaned"}
          IN /\ owid_clean' = IF o = Raised THEN owid_clean ELSE o
             /\ who_clean' = IF w = Raised THEN who_clean ELSE w
             /\ owid_raw' = IF owid_raw = None THEN owid_raw
                            ELSE clean_source_data_df(owid_raw)
             /\ who_raw' = IF o = Raised \/ who_raw = None THEN who_raw
                           ELSE clean_source_data_df(who_raw)
             /\ run' = [Returned("clean_data", w # Raised /\ fault = "none")
                          EXCEPT !.written = @ \cup saved,
                                 !.disk.owid_cleaned =
                                    IF "owid_cleaned" \in saved THEN to_csv(o) ELSE @,
                                 !.disk.who_cleaned =
                                    IF "who_cleaned" \in saved THEN to_csv(w) ELSE @]
    /\ UNCHANGED <<frame, cleaned, flagged, merged, top, args>>

\* analyze_owid (lines 101-145).  plot_fails: saving a figure raises.
AnalyzeOwid ==
    /\ run.pc = "analyze_owid"
    /\ \E plot_fails \in BOOLEAN :
          run' = Returned("analyze_owid",
                          /\ ~OwidAnalysisRaises(owid_clean)
                          /\ ~(plot_fails /\ OwidPlots(owid_clean)))
    /\ UNCHANGED <<frame, cleaned, flagged, owid_raw, who_raw, owid_clean, who_clean,
                   merged, top, args>>

\* analyze_who (lines 147-187).
AnalyzeWho ==
    /\ run.pc = "analyze_who"
    /\ \E plot_fails \in BOOLEAN :
          run' = Returned("analyze_who",
                          /\ ~WhoAnalysisRaises(who_clean)
                          /\ ~(plot_fails /\ WhoPlots(who_clean)))
    /\ UNCHANGED <<frame, cleaned, flagged, owid_raw, who_raw, owid_clean, who_clean,
                   merged, top, args>>

\* analyze_combined (lines 189-221).  fault: to_csv raises ("write"), or
\* the plot after it does ("plot").
AnalyzeCombined ==
    /\ run.pc = "analyze_combined"
    /\ \E fault \in {"none", "write", "plot"} :
          LET m == Compared(owid_clean, who_clean)
          IN /\ merged' = IF m = Raised THEN merged ELSE m
             /\ run' = IF m = Raised THEN Returned("analyze_combined", FALSE)
                       ELSE IF empty(m)
                       THEN [Returned("analyze_combined", TRUE) EXCEPT !.join = 0]
                       ELSE [Returned("analyze_combined", fault = "none") EXCEPT
                               !.join = Len(m.rows),
                               !.written = IF fault = "write" THEN @ ELSE @ \cup {"merged"},
                               !.disk.merged = IF fault = "write" THEN @ ELSE to_csv(m)]
    /\ UNCHANGED <<frame, cleaned, flagged, owid_raw, who_raw, owid_clean, who_clean,
                   top, args>>

\* generate_summary and the return of run() (lines 262-275), with the exit
\* status main() gives the process (line 282; an exception that nothing
\* catches ends the process with status 1).
GenerateSummary ==
    /\ run.pc = "generate_summary"
    /\ run' = IF SummaryRaises THEN [run EXCEPT !.pc = "raised", !.exit = 1]
              ELSE [run EXCEPT !.pc = "returned",
                               !.exit = IF all(run.results) THEN 0 ELSE 1]
    /\ UNCHANGED <<frame, cleaned, flagged, owid_raw, who_raw, owid_clean, who_clean,
                   merged, top, args>>

NextRun ==
    \/ Run \/ LoadData \/ CleanData \/ AnalyzeOwid \/ AnalyzeWho \/ AnalyzeCombined
    \/ GenerateSummary

SpecRun == InitRun /\ [][NextRun]_vars

----------------------------------------------------------------------------
\* Properties of a run (SpecRun)

\* The stages that have returned in the current run, and what stage k
\* returned.
Finished == Len(run.results)

\* C15: the stages of a run are started in the order load, clean,
\* analyze_owid, analyze_who, analyze_combined, and once a stage has
\* reported failure no later stage of the run is started.
C15_ShortCircuit ==
    /\ run.pc \in {Stages[k] : k \in 1..Len(Stages)} => run.pc = Stages[Finished + 1]
    /\ \A i \in 1..(Finished - 1) : run.results[i]

\* C16: in a run whose cleaning stage reports failure no analysis stage
\* reports success and no merged artifact is written.
C16_CleanGates ==
    (Finished >= 2 /\ ~run.results[2]) =>
        /\ \A i \in 3..Finished : ~run.results[i]
        /\ "merged" \notin run.written

\* C17: the run ends in success, exit status 0, if and only if every one
\* of the five stages reported success.
C17_ExitStatus ==
    run.pc \in {"returned", "raised"} =>
        (run.exit = 0 <=> (Finished = Len(Stages) /\ all(run.results)))

\* C18 as stated: the merged artifact is written during a run if and only
\* if the combined stage produced a merged table with at least one row;
\* when the join is empty the stage still reports success.
C18_Original ==
    Finished = Len(Stages) =>
        /\ "merged" \in run.written <=> run.join >= 1
        /\ run.join = 0 => run.results[5]

\* C18, amended: the merged artifact is written only if the combined stage
\* produced a merged table with at least one row, and is written whenever
\* the stage produced one and reported success; when the join is empty
\* nothing is written and the stage still reports success.
C18_WrittenIffRows ==
    Finished = Len(Stages) =>
        /\ "merged" \in run.written => run.join >= 1
        /\ (run.join >= 1 /\ run.results[5]) => "merged" \in run.written
        /\ run.join = 0 => ("merged" \notin run.written /\ run.results[5])

\* C18's case: the combined stage joined the two cleaned tables to a table
\* with a row, wrote it and reported success.
C18_Witness ==
    /\ Finished = Len(Stages) /\ run.join >= 1 /\ run.results[5]
    /\ "merged" \in run.written /\ merged.rows # <<>>

----------------------------------------------------------------------------
\* The frame-effect specification: the cleaners, identify_outliers and the
\* analyzers are called, in any order, on tables their caller keeps.

\* Bound: the most rows a table of the frame-effect specification holds.
MaxFrameRows == 2

FrameCells == {<<Name(1), Num(2000), Num(10)>>, <<Name(1), Num(2001), Null>>}

FrameInputs ==
    {Frame(<<"Country", "Year", "value">>, q) : q \in SeqsUpTo(FrameCells, MaxFrameRows)}

FrameOwidInputs ==
    {Frame(s, q) : s \in {<<"Entity", "Year", "tb_incidence">>,
                          <<"Country", "Year", "tb_incidence">>},
                   q \in SeqsUpTo(FrameCells, MaxFrameRows)}

FrameWhoInputs ==
    {Frame(s, q) : s \in {<<"country", "year", "tb_incidence">>,
                          <<"Country", "Year", "tb_treatment_success_rate">>},
                   q \in SeqsUpTo(FrameCells, MaxFrameRows)}

InitFrame ==
    /\ cleaned = None /\ flagged = None /\ owid_clean = None /\ who_clean = None
    /\ merged = None /\ top = None /\ args = NoArgs /\ run = NoRun
    /\ \/ frame \in FrameInputs /\ owid_raw = None /\ who_raw = None
       \/ frame = None /\ owid_raw \in FrameOwidInputs /\ who_raw \in FrameWhoInputs

NextFrame ==
    \/ CleanTb \/ IdentifyOutliers \/ CleanOwid \/ CleanWho
    \/ OwidTop \/ WhoTop \/ Compare

SpecFrame == InitFrame /\ [][NextFrame]_vars

\* A table its caller holds is the same after a step: a raw table always,
\* a cleaned table once a cleaner has returned it.
Kept(before, after) == before # None => after = before

\* C20: no cleaning or analysis operation mutates its input table: after
\* the call the table passed in has the same columns, rows and cells as
\* before.
C20_NoMutation ==
    [][/\ Kept(frame, frame') /\ Kept(owid_raw, owid_raw') /\ Kept(who_raw, who_raw')
       /\ Kept(owid_clean, owid_clean') /\ Kept(who_clean, who_clean')]_vars

\* C20's case: both raw tables were cleaned and the cleaned tables ranked
\* and merged; or a table was cleaned and searched for outliers.
C20_Witness ==
    \/ /\ owid_clean.st = "ok" /\ who_clean.st = "ok" /\ top.st = "ok"
       /\ merged.st = "ok" /\ merged.rows # <<>>
    \/ cleaned.st = "ok" /\ flagged.st = "ok" /\ cleaned.rows # <<>>

----------------------------------------------------------------------------
\* More properties of identify_outliers (SpecOutliers)

\* C21: identify_outliers only annotates: whatever it returns has the rows
\* of its input in the input's order, every column of the input with the
\* input's values, and one more column, the boolean is_outlier.
C21_OnlyAnnotates ==
    flagged.st = "ok" =>
        /\ flagged.cols = frame.cols \cup {"is_outlier"}
        /\ "is_outlier" \notin frame.cols
        /\ Len(flagged.rows) = Len(frame.rows)
        /\ \A i \in 1..Len(frame.rows) :
              /\ flagged.rows[i].src = frame.rows[i].src
              /\ \A n \in frame.cols : flagged.rows[i].c[n] = frame.rows[i].c[n]
              /\ flagged.rows[i].c["is_outlier"].k = "bool"

\* A call that returned a table with a flagged row, an unflagged row whose
\* value is null, and its values in place.
C21_Witness ==
    /\ flagged.st = "ok"
    /\ Len(frame.rows) >= 3
    /\ \E i, j \in 1..Len(flagged.rows) :
          /\ Flags(flagged)[i] /\ ~isna(flagged.rows[i].c["value"])
          /\ ~Flags(flagged)[j] /\ isna(flagged.rows[j].c["value"])

\* The non-null values of a column are all equal, or there is none.
NoSpread(df, col) ==
    \A i, j \in Scored(df, col) : df.rows[i].c[col] = df.rows[j].c[col]

\* C23: a requested column with zero variance, or with no non-null value,
\* contributes no flag and no error: when every requested column present in
\* the table is such a column the call returns and no row is flagged.
C23_NoSpreadNoFlag ==
    (/\ flagged # None
     /\ \A col \in args.columns \cap frame.cols : NoSpread(frame, col))
    => /\ flagged.st = "ok"
       /\ \A i \in 1..Len(flagged.rows) : ~Flags(flagged)[i]

----------------------------------------------------------------------------
\* Trend aggregation (analysis.py)

\* The cells of a set in ascending order of value (groupby sorts its keys,
\* and sort_values('year') sorts them again).
RECURSIVE Ascending(_)
Ascending(S) ==
    IF S = {} THEN <<>>
    ELSE LET least == CHOOSE x \in S : \A y \in S : x.v <= y.v
         IN <<least>> \o Ascending(S \ {least})

\* The group keys of df.groupby('year'): the non-null years of the table.
Years(df) == {df.rows[i].c["year"] : i \in {j \in 1..Len(df.rows) : ~isna(df.rows[j].c["year"])}}

\* The rows of one year whose cell in col is not null: .mean() skips NaN.
YearGroup(df, col, year) == {i \in Scored(df, col) : df.rows[i].c["year"] = year}

\* The mean of some cells of a column, as the exact fraction v / (2 n): v
\* is the sum of the doubled values and n their number.  NaN for no cell.
mean(df, col, idx) ==
    IF idx = {} THEN Null
    ELSE [k |-> "mean", v |-> Sum([i \in idx |-> Twice(df.rows[i].c[col])], idx),
          n |-> Cardinality(idx)]

\* df.groupby('year')[col].mean().reset_index().rename(columns={col: avg})
\* .sort_values('year'), behind the guard on the indicator column.  Grouping
\* by a missing key column raises, and so does the mean of a column of
\* dtype object.
groupby_year_mean(df, col, avg) ==
    IF col \notin df.cols THEN EmptyFrame
    ELSE IF "year" \notin df.cols \/ col \notin df.num THEN Raised
    ELSE LET years == Ascending(Years(df))
         IN [st |-> "ok", cols |-> {"year", avg}, num |-> {"year", avg},
             rows |-> [g \in 1..Len(years) |->
                         [src |-> g,
                          c |-> [n \in {"year", avg} |->
                                   IF n = "year" THEN years[g]
                                   ELSE mean(df, col, YearGroup(df, col, years[g]))]]]]

owid_global_tb_trends(df) == groupby_year_mean(df, "tb_incidence", "avg_incidence")

who_treatment_success_trends(df) ==
    groupby_year_mean(df, "tb_treatment_success_rate", "avg_treatment_success_rate")

\* SpecTrend: a source table is cleaned and its trend function is called on
\* the cleaned table; top holds what the function returned.
MaxTrendRows == 3

TrendCells ==
    {<<Name(i), Num(y), x>> : i \in 1..2, y \in {2019, 2020},
                              x \in {Null, Num(10), Num(25), Num(150), Token}}

TrendOwidInputs ==
    {Frame(s, q) : s \in {<<"country", "year", "tb_incidence">>,
                          <<"country", "year", "tb_deaths">>},
                   q \in SeqsUpTo(TrendCells, MaxTrendRows)}

TrendWhoInputs ==
    {Frame(s, q) : s \in {<<"country", "year", "tb_treatment_success_rate">>,
                          <<"country", "year", "tb_cases_notified">>},
                   q \in SeqsUpTo(TrendCells, MaxTrendRows)}

InitTrend ==
    /\ frame = None /\ cleaned = None /\ flagged = None /\ merged = None
    /\ owid_clean = None /\ who_clean = None /\ top = None /\ args = NoArgs /\ run = NoRun
    /\ \/ owid_raw \in TrendOwidInputs /\ who_raw = None
       \/ owid_raw = None /\ who_raw \in TrendWhoInputs

OwidTrends ==
    /\ owid_clean.st = "ok" /\ top = None
    /\ top' = owid_global_tb_trends(owid_clean)
    /\ UNCHANGED <<frame, cleaned, flagged, owid_raw, who_raw, owid_clean, who_clean,
                   merged, args, run>>

WhoTrends ==
    /\ who_clean.st = "ok" /\ top = None
    /\ top' = who_treatment_success_trends(who_clean)
    /\ UNCHANGED <<frame, cleaned, flagged, owid_raw, who_raw, owid_clean, who_clean,
                   merged, args, run>>

NextTrend == CleanOwid \/ CleanWho \/ OwidTrends \/ WhoTrends

SpecTrend == InitTrend /\ [][NextTrend]_vars

\* trends is the yearly mean of column col of df: one row per distinct year
\* of df, in ascending year order, each holding the mean of the year's
\* non-null values of col (NaN when the year has none).
YearlyMeans(df, col, avg, trends) ==
    /\ trends.st = "ok"
    /\ trends.cols = {"year", avg}
    /\ Len(trends.rows) = Cardinality(Years(df))
    /\ \A g \in 1..Len(trends.rows) :
          LET year == trends.rows[g].c["year"]
              idx == YearGroup(df, col, year)
              m == trends.rows[g].c[avg]
          IN /\ year \in Years(df)
             /\ g > 1 => trends.rows[g - 1].c["year"].v < year.v
             /\ IF idx = {} THEN isna(m)
                ELSE /\ m.k = "mean"
                     /\ m.n = Cardinality(idx)
                     /\ \A i \in idx : df.rows[i].c[col].k = "num"
                     /\ m.v = 2 * Sum([i \in idx |-> df.rows[i].c[col].v], idx)

TrendOf(df, col, avg, trends) ==
    IF col \in df.cols THEN YearlyMeans(df, col, avg, trends) ELSE trends = EmptyFrame

\* C22: owid_global_tb_trends and who_treatment_success_trends return, when
\* the indicator column is present, one row per distinct year of the input
\* with the mean of the year's non-null indicator values, in ascending year
\* order; when the column is absent they return an empty table and raise
\* nothing.
C22_TrendAggregation ==
    top # None =>
        /\ owid_clean.st = "ok"
              => TrendOf(owid_clean, "tb_incidence", "avg_incidence", top)
        /\ who_clean.st = "ok"
              => TrendOf(who_clean, "tb_treatment_success_rate",
                         "avg_treatment_success_rate", top)

----------------------------------------------------------------------------
\* More properties of the source cleaners (SpecClean)

\* The tables the cleaners hand to their last step: imputed, no row dropped
\* yet for missing indicators.
OwidFilled == FillByCountry(OwidBase)

WhoFilled == FillByCountry(WhoBase)

\* Row i of the raw table has a country and a year that reads as an integer
\* of the window.
ValidKey(raw, i) ==
    LET country == raw.rows[i].c[CHOOSE o \in raw.cols : Canonical(o) = "country"]
        year == to_numeric(raw.rows[i].c[CHOOSE o \in raw.cols : Canonical(o) = "year"])
    IN /\ ~isna(country)
       /\ year.k = "num" /\ MIN_YEAR <= year.v /\ year.v <= MAX_YEAR

\* A row has a value in one of the columns.
Signal(row, cols) == \E col \in cols : ~isna(row.c[col])

SignalKept(raw, filled, out, indicators) ==
    LET present == indicators \cap out.cols
    IN (out.st = "ok" /\ present # {}) =>
          /\ \A i \in 1..Len(out.rows) : Signal(out.rows[i], present)
          /\ \A k \in 1..Len(filled.rows) :
                Signal(filled.rows[k], present)
                  => \E i \in 1..Len(out.rows) : out.rows[i] = filled.rows[k]
          /\ \A i \in 1..Len(raw.rows) :
                ValidKey(raw, i)
                  => \E k \in 1..Len(filled.rows) :
                        raw.rows[filled.rows[k].src].c = raw.rows[i].c

\* C24: when a tracked indicator column of the source is present, no row
\* of the cleaned table has all the present tracked indicators null, and
\* every input row with a valid in-window key (one of each set of equal
\* rows) that has a non-null tracked indicator after imputation is kept.
C24_SignalKept ==
    /\ SignalKept(owid_raw, OwidFilled, owid_clean, tb_indicators)
    /\ SignalKept(who_raw, WhoFilled, who_clean, who_indicators)

\* A cleaned table that lost a row for missing indicators and kept a row
\* whose only tracked value was imputed.
C24_Witness ==
    /\ owid_clean.st = "ok" /\ "tb_incidence" \in owid_clean.cols
    /\ Len(owid_clean.rows) < Len(OwidFilled.rows)
    /\ \E i \in 1..Len(owid_clean.rows) :
          /\ isna(RawCell(owid_raw, owid_clean.rows[i], "tb_incidence"))
          /\ ~isna(owid_clean.rows[i].c["tb_incidence"])

\* Every cell of the indicator columns of a cleaned table is a number or
\* null, and the columns have a numeric dtype.
IndicatorsNumeric(out, indicators) ==
    out.st = "ok" =>
        \A col \in indicators \cap out.cols :
           /\ col \in out.num
           /\ \A i \in 1..Len(out.rows) : ~IsString(out.rows[i].c[col])

\* C25: after cleaning either source, every well-known indicator column
\* present in the table holds only numbers or nulls (an unparseable token
\* has become null) and is numeric, so that it is imputed like any other.
C25_IndicatorsNumeric ==
    /\ IndicatorsNumeric(owid_clean, tb_indicators)
    /\ IndicatorsNumeric(who_clean, who_indicators)

----------------------------------------------------------------------------
\* SpecAlias: the source cleaners on raw tables whose column names are
\* spellings of the aliases and of the canonical names.
MaxAliasRows == 2

AliasCells ==
    {<<Name(i), Num(y), x>> : i \in 1..2, y \in {2000}, x \in {Null, Num(10)}}

AliasSchemas ==
    {<<"Entity", "Year", "Estimated incidence of all forms of tuberculosis">>,
     <<"entity", "Year", "tb_incidence">>,
     <<" Entity ", "YEAR", "TB Incidence">>,
     <<"ENTITY", " year", "estimated incidence of all forms of tuberculosis">>,
     <<"Country", "year", "tb_deaths">>}

AliasInputs == {Frame(s, q) : s \in AliasSchemas, q \in SeqsUpTo(AliasCells, MaxAliasRows)}

InitAlias ==
    /\ frame = None /\ cleaned = None /\ flagged = None /\ merged = None
    /\ owid_clean = None /\ who_clean = None /\ top = None /\ args = NoArgs /\ run = NoRun
    /\ \/ owid_raw \in AliasInputs /\ who_raw = None
       \/ owid_raw = None /\ who_raw \in AliasInputs

NextAlias == CleanOwid \/ CleanWho

SpecAlias == InitAlias /\ [][NextAlias]_vars

\* The name a raw column is to have in the cleaned table when the aliases
\* are matched on normalized names: the canonical name of the alias whose
\* normalized form is the column's normalized name, else that name.
AliasAfterNormalization(name) ==
    LET n == NormalizeName(name)
    IN CASE n = NormalizeName("Entity") -> "country"
         [] n = NormalizeName("Year") -> "year"
         [] n = NormalizeName("Estimated incidence of all forms of tuberculosis")
              -> "tb_incidence"
         [] OTHER -> n

Renamed(raw, out) ==
    out.st = "ok" => out.cols = {AliasAfterNormalization(o) : o \in raw.cols}

\* C26: alias renaming is applied after column-name normalization: every
\* raw column whose normalized name is the normalized form of a known alias
\* is in the cleaned table under its canonical name (country, year,
\* tb_incidence), and every other column under its normalized name.
C26_AliasAfterNormalization ==
    /\ owid_clean # None => Renamed(owid_raw, owid_clean)
    /\ who_clean # None => Renamed(who_raw, who_clean)

----------------------------------------------------------------------------
\* More properties of the pipeline (SpecRun)

\* The columns the dashboard reads from data/processed/tb_merged.csv
\* (src/app.py lines 267-283).
DashboardReads == {"country", "tb_incidence_owid", "tb_incidence_who"}

\* C27: the merged artifact the orchestrator writes has every column the
\* dashboard reads from it: country, tb_incidence_owid, tb_incidence_who.
C27_DashboardColumns ==
    run.disk.merged # None => DashboardReads \subseteq run.disk.merged.cols

\* C28: every invocation of run() ends by emitting the summary and
\* returning a boolean: no error escapes it, whatever the stages did and
\* whatever the tables hold.
C28_RunReturns == run.pc # "raised"

\* C29: once a run has completed with all stages successful, a merged
\* artifact on disk holds the inner join of the two canonical artifacts
\* that run persisted; none is left from an earlier run beside canonical
\* artifacts whose join is empty.
C29_MergedIsJoin ==
    (/\ run.pc = "returned"
     /\ all(run.results)
     /\ run.disk.merged # None)
    => LET join == Compared(run.disk.owid_cleaned, run.disk.who_cleaned)
       IN /\ join.rows # <<>>
          /\ SameTable(run.disk.merged, to_csv(join))

====
